---- MODULE Spec2Model ----
(***************************************************************************)
(* Model of the sugars ETL service: the pipeline fetch_and_store_data      *)
(* (sugars/etl_service.py), the manual trigger (sugars/events/routers.py)  *)
(* and the scheduler with its startup catch-up (sugars/events/scheduler.py *)
(* and sugars/main.py), over the market_daily table (sugars/models.py).    *)
(*                                                                         *)
(* Numbers are fixed point.  Dates are day ordinals.  Exchange rates, raw  *)
(* and normalised, are counted in millionths (7.0 is 7000000), prices and  *)
(* the freight index are whole numbers, import_cost_estimate is counted in *)
(* hundredths (its two decimals).                                          *)
(***************************************************************************)
EXTENDS Integers, Sequences, FiniteSets, TLC

\* ------------------------------------------------------------------ bounds
MaxNow == 1         \* the clock stops advancing at this tick
FillDays == 3       \* the days, ending today, the enumerated provider data covers
Day0 == 1000        \* day ordinal of the first modelled day
CutEnds == 2        \* a midnight falls within so many reads of either end of the fallback list, or at its middle

\* --------------------------------------------------------- program constants
FxWindowDays == 60          \* timedelta(days=60), range(60), [current_rate] * 60
KeepDays == 365             \* timedelta(days=365)
RateUnit == 1000 * 1000     \* fixed point: one unit of exchange rate
current_rate == 7 * RateUnit        \* current_rate = 7.0
PerHundred == 50 * RateUnit         \* pl.col("usd_cny_rate") > 50

\* polars null / pandas NaN / Python None in a column of non-negative numbers
Null == 0 - 1
\* a raw date value that pl.Date cannot be cast from
Unparseable == 0 - 2

\* ----------------------------------------------------------- small helpers
RECURSIVE Flatten(_)
Flatten(ss) == IF ss = <<>> THEN <<>> ELSE Head(ss) \o Flatten(Tail(ss))

Range(s) == {s[i] : i \in DOMAIN s}

Max(S) == CHOOSE x \in S : \A y \in S : y <= x

\* ------------------------------------------------- extract: the fallback
\* dates = [date.today() - timedelta(days=i) for i in range(60)];
\* {"日期": dates, "中行汇买价": [current_rate] * 60}
\* date.today() is read once for each entry.  The first read gives `first`;
\* for each midnight m that has passed since, cut[m] of the 60 reads were made
\* before it, so entry i (counted from 1) reads first plus the number of
\* midnights with fewer than i reads before them.
SyntheticFxOver(first, today, cut) ==
    [i \in 1..FxWindowDays |->
        [date |-> first + Cardinality({m \in (first + 1)..today : cut[m] < i})
                    - (i - 1),
         rate |-> current_rate]]

\* the numbers of reads a midnight can fall after: the first and the last
\* CutEnds of the 60, and the middle one
Cuts ==
    {k \in 1..FxWindowDays :
        k <= CutEnds \/ k > FxWindowDays - CutEnds \/ k = FxWindowDays \div 2}

\* the list when no midnight falls between its reads
SyntheticFx(today) ==
    [i \in 1..FxWindowDays |-> [date |-> today - (i - 1), rate |-> current_rate]]

\* ------------------------------------------------- transform: normalisers
\* .cast(pl.Date) is a strict cast: one value that cannot be cast fails it
CastRaises(df) == \E i \in DOMAIN df : df[i].date = Unparseable

q_sugar(df_sugar_raw) ==
    [i \in DOMAIN df_sugar_raw |->
        [record_date |-> df_sugar_raw[i].date,
         sugar_close |-> df_sugar_raw[i].close,
         sugar_open  |-> df_sugar_raw[i].open]]

\* pl.when(rate > 50).then(rate / 100).otherwise(rate); null stays null
NormRate(v) ==
    IF v = Null THEN Null
    ELSE IF v > PerHundred THEN v \div 100
    ELSE v

q_fx(df_fx_raw) ==
    [i \in DOMAIN df_fx_raw |->
        [record_date  |-> df_fx_raw[i].date,
         usd_cny_rate |-> NormRate(df_fx_raw[i].rate)]]

q_bdi(df_bdi_raw) ==
    [i \in DOMAIN df_bdi_raw |->
        [record_date |-> df_bdi_raw[i].date,
         bdi_index   |-> df_bdi_raw[i].index]]

\* ------------------------------------------------- transform: join and fill
\* faulty variant: a left row joins to every row of `right`, whatever its date
MatchesAny(right, d) == right

\* faulty variant: an as-of join, a left row joins to the rows of the latest date
\* of `right` that is not after its own
MatchesAsOf(right, d) ==
    SelectSeq(right, LAMBDA r :
        /\ d # Null
        /\ r.record_date # Null
        /\ r.record_date <= d
        /\ \A k \in DOMAIN right :
              (right[k].record_date # Null /\ right[k].record_date <= d) =>
                    right[k].record_date <= r.record_date)

\* the rows of `right` a left row joins to: same key, and a null key joins nothing
Matches(right, d) ==
    SelectSeq(right, LAMBDA r : d # Null /\ r.record_date = d)

\* q_sugar.join(q_fx, on="record_date", how="left")
JoinFx(left, right) ==
    Flatten([i \in DOMAIN left |->
        LET m == Matches(right, left[i].record_date) IN
        IF m = <<>>
        THEN << [record_date |-> left[i].record_date,
                 sugar_close |-> left[i].sugar_close,
                 sugar_open |-> left[i].sugar_open,
                 usd_cny_rate |-> Null] >>
        ELSE [j \in DOMAIN m |->
                [record_date |-> left[i].record_date,
                 sugar_close |-> left[i].sugar_close,
                 sugar_open |-> left[i].sugar_open,
                 usd_cny_rate |-> m[j].usd_cny_rate]]])

\* .join(q_bdi, on="record_date", how="left")
JoinBdi(left, right) ==
    Flatten([i \in DOMAIN left |->
        LET m == Matches(right, left[i].record_date) IN
        IF m = <<>>
        THEN << [record_date |-> left[i].record_date,
                 sugar_close |-> left[i].sugar_close,
                 sugar_open |-> left[i].sugar_open,
                 usd_cny_rate |-> left[i].usd_cny_rate,
                 bdi_index |-> Null] >>
        ELSE [j \in DOMAIN m |->
                [record_date |-> left[i].record_date,
                 sugar_close |-> left[i].sugar_close,
                 sugar_open |-> left[i].sugar_open,
                 usd_cny_rate |-> left[i].usd_cny_rate,
                 bdi_index |-> m[j].bdi_index]]])

\* .sort("record_date"): ascending, nulls first, rows of one date in join order
RECURSIVE InsertSorted(_, _)
InsertSorted(row, sorted) ==
    IF sorted = <<>> THEN <<row>>
    ELSE IF Head(sorted).record_date <= row.record_date
         THEN <<Head(sorted)>> \o InsertSorted(row, Tail(sorted))
         ELSE <<row>> \o sorted

RECURSIVE SortByDate(_)
SortByDate(df) ==
    IF df = <<>> THEN <<>>
    ELSE InsertSorted(df[Len(df)], SortByDate(SubSeq(df, 1, Len(df) - 1)))

\* faulty variant: the value carried so far replaces a row's own value
RECURSIVE ForwardFillStale(_, _, _)
ForwardFillStale(df, lastRate, lastBdi) ==
    IF df = <<>> THEN <<>>
    ELSE LET h == Head(df)
             r == IF lastRate # Null THEN lastRate ELSE h.usd_cny_rate
             b == IF lastBdi # Null THEN lastBdi ELSE h.bdi_index
         IN  << [h EXCEPT !.usd_cny_rate = r, !.bdi_index = b] >>
             \o ForwardFillStale(Tail(df), r, b)

\* pl.col("usd_cny_rate").forward_fill(), pl.col("bdi_index").forward_fill()
RECURSIVE ForwardFill(_, _, _)
ForwardFill(df, lastRate, lastBdi) ==
    IF df = <<>> THEN <<>>
    ELSE LET h == Head(df)
             r == IF h.usd_cny_rate = Null THEN lastRate ELSE h.usd_cny_rate
             b == IF h.bdi_index = Null THEN lastBdi ELSE h.bdi_index
         IN  << [h EXCEPT !.usd_cny_rate = r, !.bdi_index = b] >>
             \o ForwardFill(Tail(df), r, b)

\* faulty variant: no window, every row is kept
InWindowOff(df, today) == df

\* .filter(pl.col("record_date") >= (date.today() - timedelta(days=365)))
InWindow(df, today) ==
    SelectSeq(df, LAMBDA r : r.record_date # Null /\ r.record_date >= today - KeepDays)

\* faulty variant: the estimate is cut after two decimals, not rounded
CostTruncated(rate, bdi) ==
    LET nh == rate \div 1000
        nl == rate % 1000
        a  == 7275 * nh
        b  == 7275 * nl + 246 * nh
        c  == 246 * nl
        whole == (a \div 100) + (b \div 100000)
        frac  == (a % 100) * 1000000 + (b % 100000) * 1000 + c
    IN  whole + (frac \div 100000000) + 10 * bdi + 20000

\* faulty variant: the freight index enters whole, not as its tenth
CostFreightWhole(rate, bdi) ==
    LET nh == rate \div 1000
        nl == rate % 1000
        a  == 7275 * nh
        b  == 7275 * nl + 246 * nh
        c  == 246 * nl
        whole == (a \div 100) + (b \div 100000)
        frac  == (a % 100) * 1000000 + (b % 100000) * 1000 + c
    IN  whole + ((frac + 49999999) \div 100000000) + 100 * bdi + 20000

\* ------------------------------------------------- transform: derived field
\* round(22 * rate * 22.0462 * 1.5 + (bdi / 10 + 200), 2), in hundredths.
\* 22 * 22.0462 * 1.5 = 727.5246, so the hundredths are
\* 7275246 * rate / 10^8 + 10 * bdi + 20000 with rate in millionths; the product
\* is formed in parts so that no intermediate leaves 32 bits.  The expression
\* is evaluated in doubles and .round(2) rounds the product of the double and
\* 100.  Up to the rate 50.0 the exact value lies half-way between two
\* hundredths at the rate 25.0 only.  There the double lies below the half-way
\* value, and its product with 100 is the half-way value itself, which is
\* rounded up (to the even neighbour, which is also the one away from zero),
\* when the freight index leaves the remainder 4 on division by 5, and from
\* 25835 on (where the product passes 2^21) also when it leaves 0 or 2; else
\* the product lies below and is rounded down.  Holds for every whole freight
\* index up to 200000.
Cost(rate, bdi) ==
    LET nh == rate \div 1000
        nl == rate % 1000
        a  == 7275 * nh
        b  == 7275 * nl + 246 * nh
        c  == 246 * nl
        whole == (a \div 100) + (b \div 100000)
        frac  == (a % 100) * 1000000 + (b % 100000) * 1000 + c
        half  == /\ frac = 50000000
                 /\ rate = 25 * RateUnit
                 /\ \/ bdi % 5 = 4
                    \/ bdi >= 25835 /\ bdi % 5 \in {0, 2}
    IN  whole + ((frac + 49999999) \div 100000000) + (IF half THEN 1 ELSE 0)
            + 10 * bdi + 20000

import_cost_estimate(row) ==
    IF row.usd_cny_rate = Null \/ row.bdi_index = Null THEN Null
    ELSE Cost(row.usd_cny_rate, row.bdi_index)

WithCost(df) ==
    [i \in DOMAIN df |->
        [record_date |-> df[i].record_date,
         sugar_close |-> df[i].sugar_close,
         sugar_open |-> df[i].sugar_open,
         usd_cny_rate |-> df[i].usd_cny_rate,
         bdi_index |-> df[i].bdi_index,
         import_cost_estimate |-> import_cost_estimate(df[i])]]

\* faulty variant: no row is dropped
KeepNulls(df) == df

\* .drop_nulls(): a row with a null in any column goes
DropNulls(df) ==
    SelectSeq(df, LAMBDA r :
        /\ r.record_date # Null
        /\ r.sugar_close # Null
        /\ r.sugar_open # Null
        /\ r.usd_cny_rate # Null
        /\ r.bdi_index # Null
        /\ r.import_cost_estimate # Null)

\* faulty variant: the casts are not strict, a value that is no date passes
NeverRaises(raw) == FALSE

\* the try block of stage 2 raises
TransformRaises(raw) ==
    CastRaises(raw.sugar) \/ CastRaises(raw.fx) \/ CastRaises(raw.bdi)

\* df_final of stage 2, as the list records = df_final.to_dicts()
\* Each stage is bound to its value before the next stage reads it.
df_final(raw, today) ==
    CHOOSE out \in
        { DropNulls(WithCost(kept)) :
            kept \in { InWindow(filled, today) :
                filled \in { ForwardFill(sorted, Null, Null) :
                    sorted \in { SortByDate(joined) :
                        joined \in { JoinBdi(left, q_bdi(raw.bdi)) :
                            left \in { JoinFx(q_sugar(raw.sugar), q_fx(raw.fx)) }
                        } } } } } : TRUE

\* ------------------------------------------------------- upstream snapshots
\* What the three providers hold at one moment: df_sugar_raw, df_fx_raw and
\* df_bdi_raw as ak.futures_zh_daily_sina, ak.currency_boc_sina and
\* ak.spot_goods would return them.
Snapshots == <<
    \* 1: two trading days; the rate is quoted per hundred on the first day only
    [sugar |-> << [date |-> Day0 - 1, close |-> 5800, open |-> 5790],
                  [date |-> Day0,     close |-> 5810, open |-> 5805] >>,
     fx    |-> << [date |-> Day0 - 1, rate |-> 725550000] >>,
     bdi   |-> << [date |-> Day0 - 1, index |-> 1000],
                  [date |-> Day0,     index |-> 1010] >>],
    \* 2: a later look at the providers: a day older than the window and the next
    \*    trading day are listed
    [sugar |-> << [date |-> Day0 - KeepDays - 1, close |-> 5500, open |-> 5490],
                  [date |-> Day0 + 1, close |-> 5830, open |-> 5825] >>,
     fx    |-> << [date |-> Day0 + 1, rate |-> 7100000] >>,
     bdi   |-> << [date |-> Day0 - KeepDays - 1, index |-> 990] >>]
>>

\* a frame of the freight provider whose date is no date
Malformed == << [date |-> Unparseable, index |-> 1010] >>

\* ------------------------------------------------------------ the database
\* a MarketDaily row: the candidate's columns and updated_at
Row(rec, ts) ==
    [record_date |-> rec.record_date,
     sugar_close |-> rec.sugar_close,
     sugar_open |-> rec.sugar_open,
     usd_cny_rate |-> rec.usd_cny_rate,
     bdi_index |-> rec.bdi_index,
     import_cost_estimate |-> rec.import_cost_estimate,
     updated_at |-> ts]

RecordDates(T) == {r.record_date : r \in T}

\* faulty variant: record_date is no key, any INSERT is accepted
NoPrimaryKey(T, d) == TRUE

\* record_date: date = Field(primary_key=True): an INSERT of a stored key fails
PrimaryKeyFree(T, d) == \A r \in T : r.record_date # d

\* the row an UPDATE leaves: SET names updated_at and the columns whose value on
\* the object differs from the value the session loaded
SetChanged(r, op) ==
    [record_date |-> r.record_date,
     sugar_close |-> IF op.row.sugar_close # op.base.sugar_close
                     THEN op.row.sugar_close ELSE r.sugar_close,
     sugar_open |-> IF op.row.sugar_open # op.base.sugar_open
                    THEN op.row.sugar_open ELSE r.sugar_open,
     usd_cny_rate |-> IF op.row.usd_cny_rate # op.base.usd_cny_rate
                      THEN op.row.usd_cny_rate ELSE r.usd_cny_rate,
     bdi_index |-> IF op.row.bdi_index # op.base.bdi_index
                   THEN op.row.bdi_index ELSE r.bdi_index,
     import_cost_estimate |->
        IF op.row.import_cost_estimate # op.base.import_cost_estimate
        THEN op.row.import_cost_estimate ELSE r.import_cost_estimate,
     updated_at |-> op.row.updated_at]

\* one statement of the unit of work: INSERT of op.row, or
\* UPDATE ... SET <changed columns> WHERE record_date = d.  op.base is the row
\* as the session loaded it, op.row the object as the loop left it.
ApplyOp(T, op) ==
    IF op.kind = "insert"
    THEN T \cup {op.row}
    ELSE {r \in T : r.record_date # op.row.record_date}
         \cup {SetChanged(r, op) : r \in {x \in T : x.record_date = op.row.record_date}}

RECURSIVE ApplyOps(_, _)
ApplyOps(T, ops) ==
    IF ops = <<>> THEN T ELSE ApplyOps(ApplyOp(T, Head(ops)), Tail(ops))

\* =================================================================== state
VARIABLES
    now,            \* the clock, in ticks: datetime.now(), date.today()
    cronPassed,     \* the 02:00 of day `now` is over: CronTrigger(hour=2, minute=0)
    table,          \* the committed rows of market_daily
    phase,          \* where the process is in its life: lifespan and start_scheduler
    jobs,           \* the ids of the jobs the scheduler holds, in registration order
    schedRunning,   \* scheduler.running
    run,            \* per calling context: the locals of fetch_and_store_data
    response,       \* per worker thread: what POST /etl/trigger answered last
    provider        \* which of Snapshots the three providers hold now

vars == <<now, cronPassed, table, phase, jobs, schedRunning, run, response, provider>>

\* date.today(): the clock counts days
Today == Day0 + now

\* the worker thread of the pool that serves POST /etl/trigger
Threads == {"t1"}
\* the contexts fetch_and_store_data is called from: check_and_run_etl during
\* startup, the executor of the job daily_etl, the worker threads of the endpoint
Ctx == {"main", "job"} \cup Threads

NoOut == [kind |-> "none", status |-> "", new |-> Null, updated |-> Null, detail |-> ""]
NoRaw == [sugar |-> <<>>, fx |-> <<>>, bdi |-> <<>>]
\* how each provider call ended: "" (not called), "ok" or "failed"
NoSrc == [sugar |-> "", fx |-> "", bdi |-> ""]

IdleRun ==
    [pc |-> "idle", src |-> NoSrc, raw |-> NoRaw, records |-> <<>>, i |-> 0,
     staged |-> <<>>, nflushed |-> 0, count_new |-> 0, count_update |-> 0,
     out |-> NoOut]

NoResponse == [code |-> 0, status |-> "", result |-> NoOut, detail |-> ""]

Init ==
    /\ now = 0
    /\ cronPassed = FALSE
    /\ table = {}
    /\ phase = "down"
    /\ jobs = <<>>
    /\ schedRunning = FALSE
    /\ run = [c \in Ctx |-> IdleRun]
    /\ response = [t \in Threads |-> NoResponse]
    /\ provider = 1

\* the providers publish: what they return changes from one of Snapshots to the
\* next, once the days it lists have come
Publish ==
    /\ provider < Len(Snapshots)
    /\ \A f \in {"sugar", "fx", "bdi"} :
            \A k \in DOMAIN Snapshots[provider + 1][f] :
                Snapshots[provider + 1][f][k].date <= Today
    /\ provider' = provider + 1
    /\ UNCHANGED <<now, cronPassed, table, phase, jobs, schedRunning, run, response>>

\* ------------------------------------------------------ fetch_and_store_data
\* the call: print("[ETL Start] ...")
Begin(c) == [IdleRun EXCEPT !.pc = "extract"]

\* return {"status": "error", "detail": str(e)}
ErrorResult(msg) ==
    [kind |-> "return", status |-> "error", new |-> Null, updated |-> Null,
     detail |-> msg]

\* return {"status": "success", "new": count_new, "updated": count_update}
SuccessResult(n, u) ==
    [kind |-> "return", status |-> "success", new |-> n, updated |-> u, detail |-> ""]

\* an exception that leaves fetch_and_store_data
Raised(msg) ==
    [kind |-> "raise", status |-> "", new |-> Null, updated |-> Null, detail |-> msg]

\* a call that is over: its locals are gone, its outcome is with the caller
Finished(out) == [IdleRun EXCEPT !.pc = "done", !.out = out]

\* str(e) of what a provider call raises: some exceptions carry no text
Messages == {"", "timed out"}

\* stage 1, the outer try, line 19: df_sugar_raw = ak.futures_zh_daily_sina(...).
\* The frame is what the provider holds when it is asked.
FetchSugar(c) ==
    /\ run[c].pc = "extract"
    /\ \/ run' = [run EXCEPT ![c] = [@ EXCEPT !.pc = "fetch_fx",
                        !.src.sugar = "ok",
                        !.raw.sugar = Snapshots[provider].sugar]]
       \/ \E msg \in Messages :
            run' = [run EXCEPT ![c] = Finished(ErrorResult(msg))]
    /\ UNCHANGED <<now, cronPassed, table, phase, jobs, schedRunning, response, provider>>

\* lines 24-36: ak.currency_boc_sina(...) returns, or it raises and the inner
\* except starts the fallback list with its first entry, the date.today() of
\* now (the strings of lines 24 and 30 are arguments of the call and change
\* nothing here)
FetchFx(c) ==
    /\ run[c].pc = "fetch_fx"
    /\ \/ run' = [run EXCEPT ![c] = [@ EXCEPT !.pc = "fetch_bdi",
                        !.src.fx = "ok",
                        !.raw.fx = Snapshots[provider].fx]]
       \/ run' = [run EXCEPT ![c] = [@ EXCEPT !.pc = "fallback",
                        !.src.fx = "failed",
                        !.raw.fx = SubSeq(SyntheticFx(Today), 1, 1)]]
    /\ UNCHANGED <<now, cronPassed, table, phase, jobs, schedRunning, response, provider>>

\* lines 36-39: the other 59 reads of date.today() and the frame of the 60
\* entries.  Each midnight that has passed since the first read can have fallen
\* after any of the reads: after one of Cuts here.
FallbackRest(c) ==
    /\ run[c].pc = "fallback"
    /\ LET first == run[c].raw.fx[1].date IN
       \E cut \in [(first + 1)..Today -> Cuts] :
            run' = [run EXCEPT ![c] = [@ EXCEPT !.pc = "fetch_bdi",
                        !.raw.fx = SyntheticFxOver(first, Today, cut)]]
    /\ UNCHANGED <<now, cronPassed, table, phase, jobs, schedRunning, response, provider>>

\* line 43: df_bdi_raw = ak.spot_goods(...) returns what the provider holds, or
\* a frame with a date that is no date; or it raises and the outer except returns
\* {"status": "error", "detail": str(e)}
FetchBdi(c) ==
    /\ run[c].pc = "fetch_bdi"
    /\ \/ \E df_bdi_raw \in {Snapshots[provider].bdi, Malformed} :
            run' = [run EXCEPT ![c] = [@ EXCEPT !.pc = "transform",
                        !.src.bdi = "ok",
                        !.raw.bdi = df_bdi_raw]]
       \/ \E msg \in Messages :
            run' = [run EXCEPT ![c] = Finished(ErrorResult(msg))]
    /\ UNCHANGED <<now, cronPassed, table, phase, jobs, schedRunning, response, provider>>

\* stage 2, the second try, and records = df_final.to_dicts()
Transform(c) ==
    /\ run[c].pc = "transform"
    /\ IF TransformRaises(run[c].raw)
       THEN run' = [run EXCEPT ![c] = Finished(ErrorResult("conversion to date failed"))]
       ELSE run' = [run EXCEPT ![c] = [@ EXCEPT !.pc = "load",
                        !.records = df_final(run[c].raw, Today),
                        !.i = 1]]
    /\ UNCHANGED <<now, cronPassed, table, phase, jobs, schedRunning, response, provider>>

\* what a SELECT of the session of context c returns: the committed rows and
\* its own statements (READ COMMITTED; the query flushes first)
View(c) == ApplyOps(table, run[c].staged)

\* session.get(MarketDaily, row["record_date"])
Existing(c, d) == {r \in View(c) : r.record_date = d}

\* faulty variant: the update branch assigns the closing price to sugar_open
UpsertOpSlip(existing, row, ts) ==
    IF existing # {}
    THEN LET e == CHOOSE x \in existing : TRUE IN
         [kind |-> "update", base |-> e,
          row |-> [e EXCEPT
                     !.sugar_close = row.sugar_close,
                     !.sugar_open = row.sugar_close,
                     !.usd_cny_rate = row.usd_cny_rate,
                     !.bdi_index = row.bdi_index,
                     !.import_cost_estimate = row.import_cost_estimate,
                     !.updated_at = ts]]
    ELSE [kind |-> "insert", base |-> Row(row, ts), row |-> Row(row, ts)]

\* the branch of the loop body: assign the candidate's values and
\* datetime.now() to the object found, or add a new object
UpsertOp(existing, row, ts) ==
    IF existing # {}
    THEN LET e == CHOOSE x \in existing : TRUE IN
         [kind |-> "update", base |-> e,
          row |-> [e EXCEPT
                     !.sugar_close = row.sugar_close,
                     !.sugar_open = row.sugar_open,
                     !.usd_cny_rate = row.usd_cny_rate,
                     !.bdi_index = row.bdi_index,
                     !.import_cost_estimate = row.import_cost_estimate,
                     !.updated_at = ts]]
    ELSE [kind |-> "insert", base |-> Row(row, ts), row |-> Row(row, ts)]

\* the statements of c's session that are not flushed yet
Pending(c) == SubSeq(run[c].staged, run[c].nflushed + 1, Len(run[c].staged))

\* another open transaction has flushed a statement for date d: it holds the
\* row lock, or the key of its INSERT, until it commits or rolls back
Locked(c, d) ==
    \E c2 \in Ctx \ {c} : \E k \in 1..run[c2].nflushed :
        run[c2].staged[k].row.record_date = d

\* the flush of c's pending statements waits for another transaction
FlushWaits(c) ==
    \E k \in DOMAIN Pending(c) : Locked(c, Pending(c)[k].row.record_date)

\* the flush of c's pending statements meets a committed key: IntegrityError
FlushRaises(c) ==
    \E k \in DOMAIN Pending(c) :
        /\ Pending(c)[k].kind = "insert"
        /\ ~PrimaryKeyFree(table, Pending(c)[k].row.record_date)

\* the statements of c's session for date d
OpsOn(c, d) == {k \in DOMAIN run[c].staged : run[c].staged[k].row.record_date = d}

\* the identity map of c's session holds the object of date d: the session
\* loaded it, or it has flushed its INSERT
InSession(c, d) ==
    \E k \in OpsOn(c, d) : run[c].staged[k].kind = "update" \/ k <= run[c].nflushed

\* stage 3: one turn of the loop `for row in records`.  session.get returns the
\* object of the identity map when the session holds it; else it flushes the
\* pending statement (autoflush), which can wait for a lock or raise, and
\* selects the row.  The frames of the fetches are not read once the loop runs.
WriteRow(c) ==
    /\ run[c].pc = "load"
    /\ run[c].i <= Len(run[c].records)
    /\ LET row == run[c].records[run[c].i]
           d   == row.record_date
       IN IF InSession(c, d)
          THEN LET k    == Max(OpsOn(c, d))
                   last == run[c].staged[k]
                   op   == UpsertOp({last.row}, row, now)
               IN  run' = [run EXCEPT ![c] = [@ EXCEPT
                        !.raw = NoRaw,
                        !.staged = IF k > run[c].nflushed
                                   THEN [@ EXCEPT ![k] = [op EXCEPT !.base = last.base]]
                                   ELSE Append(@, op),
                        !.count_update = @ + 1,
                        !.i = @ + 1]]
          ELSE /\ ~FlushWaits(c)
               /\ IF FlushRaises(c)
                  THEN run' = [run EXCEPT ![c] = Finished(Raised("IntegrityError"))]
                  ELSE LET op == UpsertOp(Existing(c, d), row, now) IN
                       run' = [run EXCEPT ![c] = [@ EXCEPT
                            !.raw = NoRaw,
                            !.staged = Append(@, op),
                            !.nflushed = Len(run[c].staged),
                            !.count_new = IF op.kind = "insert" THEN @ + 1 ELSE @,
                            !.count_update = IF op.kind = "update" THEN @ + 1 ELSE @,
                            !.i = @ + 1]]
    /\ UNCHANGED <<now, cronPassed, table, phase, jobs, schedRunning, response, provider>>

\* the rows session.commit() leaves in the table
Committed(T, ops) == ApplyOps(T, ops)

\* stage 3: session.commit() after the loop flushes what is pending and
\* commits, then the return
Commit(c) ==
    /\ run[c].pc = "load"
    /\ run[c].i > Len(run[c].records)
    /\ ~FlushWaits(c)
    /\ IF FlushRaises(c)
       THEN /\ run' = [run EXCEPT ![c] = Finished(Raised("IntegrityError"))]
            /\ UNCHANGED table
       ELSE /\ table' = Committed(table, run[c].staged)
            /\ run' = [run EXCEPT ![c] =
                        Finished(SuccessResult(run[c].count_new,
                                                run[c].count_update))]
    /\ UNCHANGED <<now, cronPassed, phase, jobs, schedRunning, response, provider>>

\* stage 3: the database fails under the session (connectivity loss): the with
\* block is left by the exception and the transaction is rolled back
DbFail(c) ==
    /\ run[c].pc = "load"
    /\ run' = [run EXCEPT ![c] = Finished(Raised("OperationalError"))]
    /\ UNCHANGED <<now, cronPassed, table, phase, jobs, schedRunning, response, provider>>

\* ------------------------------------------------------------- the callers
\* the process starts: uvicorn enters lifespan, which calls start_scheduler
Boot ==
    /\ phase = "down"
    /\ phase' = "check"
    /\ UNCHANGED <<now, cronPassed, table, jobs, schedRunning, run, response, provider>>

\* if not latest or latest.record_date < today
NeedsCatchUp(T, today) == T = {} \/ Max(RecordDates(T)) < today

\* check_and_run_etl: the latest-date query raises; the except logs it
CheckFails ==
    /\ phase = "check"
    /\ phase' = "check_failed"
    /\ UNCHANGED <<now, cronPassed, table, jobs, schedRunning, run, response, provider>>

\* check_and_run_etl: the query returns and the branch is taken
CheckAndRun ==
    /\ phase = "check"
    /\ IF NeedsCatchUp(table, Today)
       THEN /\ phase' = "catchup"
            /\ run' = [run EXCEPT !["main"] = Begin("main")]
       ELSE /\ phase' = "up_to_date"
            /\ UNCHANGED run
    /\ UNCHANGED <<now, cronPassed, table, jobs, schedRunning, response, provider>>

\* faulty variant: no except around the run, check_and_run_etl comes back only
\* when fetch_and_store_data returned
CatchUpReturnOnSuccess ==
    /\ phase = "catchup"
    /\ run["main"].pc = "done"
    /\ run["main"].out.kind = "return"
    /\ phase' = "caught_up"
    /\ run' = [run EXCEPT !["main"] = IdleRun]
    /\ UNCHANGED <<now, cronPassed, table, jobs, schedRunning, response, provider>>

\* check_and_run_etl: fetch_and_store_data is back, by return or by an exception
\* the except swallows
CatchUpReturn ==
    /\ phase = "catchup"
    /\ run["main"].pc = "done"
    /\ phase' = "caught_up"
    /\ run' = [run EXCEPT !["main"] = IdleRun]
    /\ UNCHANGED <<now, cronPassed, table, jobs, schedRunning, response, provider>>

\* faulty variant: the job is registered without waiting for check_and_run_etl
CheckedEarly == {"check", "catchup", "check_failed", "up_to_date", "caught_up"}

\* check_and_run_etl has returned: its except logged the failed query
\* ("check_failed"), its else branch logged that the data is current
\* ("up_to_date"), or the run it started is over ("caught_up")
Checked == {"check_failed", "up_to_date", "caught_up"}

\* faulty variant: replace_existing is not passed, a registration is added to
\* the ones the scheduler holds
AddJobToAppend(js, id) == Append(js, id)

\* scheduler.add_job(..., id="daily_etl", replace_existing=True)
AddJobTo(js, id) == Append(SelectSeq(js, LAMBDA j : j # id), id)

AddJob ==
    /\ phase \in Checked
    /\ jobs' = AddJobTo(jobs, "daily_etl")
    /\ phase' = "start"
    /\ UNCHANGED <<now, cronPassed, table, schedRunning, run, response, provider>>

\* scheduler.start(); lifespan yields and requests are served
StartScheduler ==
    /\ phase = "start"
    /\ schedRunning' = TRUE
    /\ phase' = "serving"
    /\ UNCHANGED <<now, cronPassed, table, jobs, run, response, provider>>

\* midnight: the clock advances by a day
Tick ==
    /\ now < MaxNow
    /\ cronPassed
    /\ now' = now + 1
    /\ cronPassed' = FALSE
    /\ UNCHANGED <<table, phase, jobs, schedRunning, run, response, provider>>

\* the running scheduler holds the job: its cron trigger fires at 02:00
Due(id) == schedRunning /\ \E k \in DOMAIN jobs : jobs[k] = id

\* 02:00: the scheduler hands daily_etl to its executor
ScheduledFire ==
    /\ ~cronPassed
    /\ Due("daily_etl")
    /\ run["job"].pc = "idle"
    /\ cronPassed' = TRUE
    /\ run' = [run EXCEPT !["job"] = Begin("job")]
    /\ UNCHANGED <<now, table, phase, jobs, schedRunning, response, provider>>

\* 02:00 while the job's previous instance still runs: the fire is skipped
\* (max_instances is 1) and no run starts
ScheduledSkip ==
    /\ ~cronPassed
    /\ Due("daily_etl")
    /\ run["job"].pc # "idle"
    /\ cronPassed' = TRUE
    /\ UNCHANGED <<now, table, phase, jobs, schedRunning, run, response, provider>>

\* 02:00 with no running scheduler that holds the job (the process is down or
\* still in start_scheduler): nothing fires, and the fire is not made up later
NoFire ==
    /\ ~cronPassed
    /\ ~Due("daily_etl")
    /\ cronPassed' = TRUE
    /\ UNCHANGED <<now, table, phase, jobs, schedRunning, run, response, provider>>

\* faulty variant: a run that did not succeed is started again at once
JobReturnRetry ==
    /\ run["job"].pc = "done"
    /\ run' = [run EXCEPT !["job"] =
                IF run["job"].out.status = "success" THEN IdleRun ELSE Begin("job")]
    /\ UNCHANGED <<now, cronPassed, table, phase, jobs, schedRunning, response, provider>>

\* the job's call is over: the executor logs a return value or an exception
JobReturn ==
    /\ run["job"].pc = "done"
    /\ run' = [run EXCEPT !["job"] = IdleRun]
    /\ UNCHANGED <<now, cronPassed, table, phase, jobs, schedRunning, response, provider>>

\* POST /etl/trigger reaches a free worker thread: trigger_etl calls the pipeline
TriggerEtl(t) ==
    /\ phase = "serving"
    /\ run[t].pc = "idle"
    /\ run' = [run EXCEPT ![t] = Begin(t)]
    /\ response' = [response EXCEPT ![t] = NoResponse]
    /\ UNCHANGED <<now, cronPassed, table, phase, jobs, schedRunning, provider>>

\* trigger_etl: return {"status": "success", "message": ..., "result": result},
\* or, from the except, HTTPException(status_code=500, detail=str(e))
Respond(out) ==
    IF out.kind = "return"
    THEN [code |-> 200, status |-> "success", result |-> out, detail |-> ""]
    ELSE [code |-> 500, status |-> "", result |-> NoOut, detail |-> out.detail]

\* faulty variant: the response is sent and the worker never leaves the call
TriggerReturnStuck(t) ==
    /\ run[t].pc = "done"
    /\ response' = [response EXCEPT ![t] = Respond(run[t].out)]
    /\ UNCHANGED <<now, cronPassed, table, phase, jobs, schedRunning, run, provider>>

TriggerReturn(t) ==
    /\ run[t].pc = "done"
    /\ response' = [response EXCEPT ![t] = Respond(run[t].out)]
    /\ run' = [run EXCEPT ![t] = IdleRun]
    /\ UNCHANGED <<now, cronPassed, table, phase, jobs, schedRunning, provider>>

\* the server shuts down: the requests in flight are answered first, lifespan
\* resumes after its yield and stop_scheduler() returns at once.
\* scheduler.shutdown() stops the scheduler and shuts its job store down: the
\* store is memory and drops its jobs.  A run of the job that is in progress
\* goes on in its thread.
StopScheduler ==
    /\ phase = "serving"
    /\ \A t \in Threads : run[t].pc = "idle"
    /\ schedRunning' = FALSE
    /\ jobs' = <<>>
    /\ phase' = "stopping"
    /\ UNCHANGED <<now, cronPassed, table, run, response, provider>>

\* the process exits after a shutdown, once the thread of the job has ended
Exit ==
    /\ phase = "stopping"
    /\ run["job"].pc = "idle"
    /\ phase' = "down"
    /\ jobs' = <<>>
    /\ response' = [t \in Threads |-> NoResponse]
    /\ UNCHANGED <<now, cronPassed, table, schedRunning, run, provider>>

\* the process is killed, at any point: every call in progress is gone and an
\* open transaction is never committed; the scheduler and its job store are
\* memory
Terminate ==
    /\ phase # "down"
    /\ phase' = "down"
    /\ jobs' = <<>>
    /\ schedRunning' = FALSE
    /\ run' = [c \in Ctx |-> IdleRun]
    /\ response' = [t \in Threads |-> NoResponse]
    /\ UNCHANGED <<now, cronPassed, table, provider>>

Next ==
    \/ Boot
    \/ CheckFails
    \/ CheckAndRun
    \/ CatchUpReturn
    \/ AddJob
    \/ StartScheduler
    \/ Tick
    \/ ScheduledFire
    \/ ScheduledSkip
    \/ NoFire
    \/ JobReturn
    \/ StopScheduler
    \/ Exit
    \/ Terminate
    \/ Publish
    \/ \E t \in Threads : TriggerEtl(t)
    \/ \E t \in Threads : TriggerReturn(t)
    \/ \E c \in Ctx : FetchSugar(c)
    \/ \E c \in Ctx : FetchFx(c)
    \/ \E c \in Ctx : FallbackRest(c)
    \/ \E c \in Ctx : FetchBdi(c)
    \/ \E c \in Ctx : Transform(c)
    \/ \E c \in Ctx : WriteRow(c)
    \/ \E c \in Ctx : Commit(c)
    \/ \E c \in Ctx : DbFail(c)

Spec == Init /\ [][Next]_vars

\* Every call made is carried on: a provider call returns or raises, the
\* transform, each turn of the write loop and the commit end, and the caller
\* takes the outcome.  Nothing obliges a trigger, a fire, a database failure or
\* the end of the process to happen.
Proceed(c) ==
    \/ FetchSugar(c)
    \/ FetchFx(c)
    \/ FallbackRest(c)
    \/ FetchBdi(c)
    \/ Transform(c)
    \/ WriteRow(c)
    \/ Commit(c)
    \/ c = "main" /\ CatchUpReturn
    \/ c = "job" /\ JobReturn
    \/ c \in Threads /\ TriggerReturn(c)

\* the steps of one day: the clock stands still
DayNext ==
    \/ Boot
    \/ CheckFails
    \/ CheckAndRun
    \/ CatchUpReturn
    \/ AddJob
    \/ StartScheduler
    \/ ScheduledFire
    \/ JobReturn
    \/ StopScheduler
    \/ Exit
    \/ Terminate
    \/ \E t \in Threads : TriggerEtl(t)
    \/ \E t \in Threads : TriggerReturn(t)
    \/ \E c \in Ctx : FetchSugar(c)
    \/ \E c \in Ctx : FetchFx(c)
    \/ \E c \in Ctx : FallbackRest(c)
    \/ \E c \in Ctx : FetchBdi(c)
    \/ \E c \in Ctx : Transform(c)
    \/ \E c \in Ctx : WriteRow(c)
    \/ \E c \in Ctx : Commit(c)
    \/ \E c \in Ctx : DbFail(c)

\* a statement that waits for the lock of another transaction is carried on
\* when the lock is released: the database serves the waiters of a lock before a
\* later request for it
LiveSpec ==
    /\ Init /\ [][DayNext]_vars
    /\ \A c \in Ctx : WF_vars(Proceed(c)) /\ SF_vars(WriteRow(c) \/ Commit(c))

\* ------------------------------------------------ the pipeline over given data
\* What the providers can hold on the FillDays days ending today, day by day.
\* The primary instrument lists the day or not, with or without an opening
\* price; the exchange-rate provider has no quote, one quote (50.0, or 725.555
\* per hundred) or both quotes for the day; the freight provider has a value
\* or none.
Days == (Day0 - FillDays + 1)..Day0
SugarKinds == {"none", "full", "noopen"}
FxKinds == {"none", "unit", "hundred", "both"}
BdiKinds == {"none", "one"}
QuotedPerHundred == 725555 * 1000

SugarRows(k, d) ==
    IF k = "none" THEN <<>>
    ELSE << [date |-> d, close |-> 5800 + (d - Day0),
             open |-> IF k = "noopen" THEN Null ELSE 5790 + (d - Day0)] >>

FxRows(k, d) ==
    (IF k \in {"unit", "both"} THEN << [date |-> d, rate |-> PerHundred] >> ELSE <<>>)
    \o (IF k \in {"hundred", "both"}
        THEN << [date |-> d, rate |-> QuotedPerHundred] >> ELSE <<>>)

BdiRows(k, d) ==
    IF k = "none" THEN <<>> ELSE << [date |-> d, index |-> 1000 + (d - Day0)] >>

\* the frames the providers return: the rows of the days in ascending order
Frames(sk, fk, bk) ==
    [sugar |-> Flatten([n \in 1..FillDays |->
                    SugarRows(sk[Day0 - FillDays + n], Day0 - FillDays + n)]),
     fx    |-> Flatten([n \in 1..FillDays |->
                    FxRows(fk[Day0 - FillDays + n], Day0 - FillDays + n)]),
     bdi   |-> Flatten([n \in 1..FillDays |->
                    BdiRows(bk[Day0 - FillDays + n], Day0 - FillDays + n)])]

\* provider data with a gap of several days: five trading days, rates 7.0 on
\* the first and 7.2 on the last, one freight value on the first
GapFrames ==
    [sugar |-> [n \in 1..5 |-> [date |-> Day0 - 5 + n, close |-> 5900 + n,
                                open |-> 5890 + n]],
     fx    |-> << [date |-> Day0 - 4, rate |-> 7000000],
                  [date |-> Day0, rate |-> 7200000] >>,
     bdi   |-> << [date |-> Day0 - 4, index |-> 1000] >>]

\* provider data that reaches back past the window: a trading day 366 days ago
\* with the only rate and the only freight value, and today's trading day
WindowFrames ==
    [sugar |-> << [date |-> Day0 - KeepDays - 1, close |-> 5500, open |-> 5490],
                  [date |-> Day0, close |-> 5810, open |-> 5805] >>,
     fx    |-> << [date |-> Day0 - KeepDays - 1, rate |-> 7100000] >>,
     bdi   |-> << [date |-> Day0 - KeepDays - 1, index |-> 990] >>]

\* provider data with a null date in every frame: the null-dated rows hold the
\* only rate and the only freight value
NullDateFrames ==
    [sugar |-> << [date |-> Null, close |-> 5700, open |-> 5690],
                  [date |-> Day0, close |-> 5810, open |-> 5805] >>,
     fx    |-> << [date |-> Null, rate |-> 7300000] >>,
     bdi   |-> << [date |-> Null, index |-> 1005] >>]

\* provider data with the rate 25.0, where the exact estimate lies half-way
\* between two hundredths: with the freight index 1000 the estimate is the
\* lower neighbour, with 1004 the upper one
TieFrames ==
    [sugar |-> << [date |-> Day0 - 1, close |-> 5800, open |-> 5790],
                  [date |-> Day0, close |-> 5810, open |-> 5805] >>,
     fx    |-> << [date |-> Day0 - 1, rate |-> 25 * RateUnit] >>,
     bdi   |-> << [date |-> Day0 - 1, index |-> 1000],
                  [date |-> Day0, index |-> 1004] >>]

\* provider data that holds today twice in the exchange-rate frame and in the
\* freight frame, first without a value and then with one
NullFirstFrames ==
    [sugar |-> << [date |-> Day0 - 1, close |-> 5800, open |-> 5790],
                  [date |-> Day0, close |-> 5810, open |-> 5805] >>,
     fx    |-> << [date |-> Day0 - 1, rate |-> 7000000],
                  [date |-> Day0, rate |-> Null],
                  [date |-> Day0, rate |-> 7200000] >>,
     bdi   |-> << [date |-> Day0 - 1, index |-> 1000],
                  [date |-> Day0, index |-> Null],
                  [date |-> Day0, index |-> 1010] >>]

\* the row a run of 366 days ago stored for its day
StoredOld ==
    {Row([record_date |-> Day0 - KeepDays - 1, sugar_close |-> 5480,
          sugar_open |-> 5470, usd_cny_rate |-> 7050000, bdi_index |-> 985,
          import_cost_estimate |-> Cost(7050000, 985)], 0)}

\* check_and_run_etl has called fetch_and_store_data, over an empty table or
\* over the table with the old row, and the three fetches have returned
MergeInit ==
    /\ now = 0
    /\ cronPassed = FALSE
    /\ table \in {{}, StoredOld}
    /\ phase = "catchup"
    /\ jobs = <<>>
    /\ schedRunning = FALSE
    /\ response = [t \in Threads |-> NoResponse]
    /\ provider = 1
    /\ \E raw \in {GapFrames, WindowFrames, NullDateFrames, TieFrames,
                    NullFirstFrames} \cup
                {Frames(sk, fk, bk) : sk \in [Days -> SugarKinds],
                                      fk \in [Days -> FxKinds],
                                      bk \in [Days -> BdiKinds]} :
        run = [c \in Ctx |->
                IF c = "main"
                THEN [IdleRun EXCEPT !.pc = "transform", !.raw = raw,
                        !.src = [sugar |-> "ok", fx |-> "ok", bdi |-> "ok"]]
                ELSE IdleRun]

\* the run goes on to its return
MergeNext ==
    \/ Transform("main")
    \/ WriteRow("main")
    \/ Commit("main")

MergeSpec == MergeInit /\ [][MergeNext]_vars

\* ================================================================== claims
\* the columns of a row other than updated_at
ValuesOf(r) ==
    [record_date |-> r.record_date,
     sugar_close |-> r.sugar_close,
     sugar_open |-> r.sugar_open,
     usd_cny_rate |-> r.usd_cny_rate,
     bdi_index |-> r.bdi_index,
     import_cost_estimate |-> r.import_cost_estimate]

Values(T) == {ValuesOf(r) : r \in T}

BatchDates(recs) == {recs[k].record_date : k \in DOMAIN recs}

\* the candidate of date d that the batch holds last
LastFor(recs, d) == recs[Max({k \in DOMAIN recs : recs[k].record_date = d})]

\* T2 is T with every candidate record of the batch applied: the dates of the
\* batch are stored with the batch's values, every other row is as it was
AllApplied(T, T2, recs) ==
    /\ RecordDates(T2) = RecordDates(T) \cup BatchDates(recs)
    /\ \A r \in T2 :
        IF r.record_date \in BatchDates(recs)
        THEN ValuesOf(r) = LastFor(recs, r.record_date)
        ELSE r \in T

\* context c is between the start and the return of fetch_and_store_data
Running(c) ==
    run[c].pc \in {"extract", "fetch_fx", "fallback", "fetch_bdi", "transform", "load"}

\* C1: at most one pipeline run executes at any time: no state has two contexts
\* between the start and the return of fetch_and_store_data.
C1_AtMostOneRun == Cardinality({c \in Ctx : Running(c)}) <= 1

\* C2: the write of one run is all-or-nothing.  Whenever the table changes, one
\* run has returned success in that step and the table is the old one with
\* every candidate record of that run applied; a step in which a run's write
\* fails leaves the table as it was and the exception reaches the caller; the
\* end of the process leaves the table as it was.
C2_AllOrNothing ==
    [][ /\ table' # table =>
            \E c \in Ctx : /\ run[c].pc = "load"
                           /\ run'[c].pc = "done"
                           /\ run'[c].out.status = "success"
                           /\ AllApplied(table, table', run[c].records)
        /\ \A c \in Ctx :
            (run[c].pc = "load" /\ run'[c].pc = "done"
                /\ run'[c].out.status # "success") =>
                    /\ table' = table
                    /\ run'[c].out.kind = "raise"
        /\ (phase # "down" /\ phase' = "down") => table' = table
      ]_vars

\* C3: in every reachable state the table holds at most one row per record_date.
C3_OneRowPerDate ==
    \A r1 \in table, r2 \in table : r1.record_date = r2.record_date => r1 = r2

\* a run's INSERT met a date another run had stored in the meantime
C3_Witness ==
    \E c \in Ctx : /\ run[c].pc = "done"
                   /\ run[c].out.detail = "IntegrityError"
                   /\ table # {}

\* the table holds, for every date of the batch, the values the batch gives it:
\* the state a committed run of this batch leaves
Reflects(T, recs) ==
    \A d \in BatchDates(recs) : \E r \in T : ValuesOf(r) = LastFor(recs, d)

\* C4: idempotence of a run.  A run that commits a batch the table already
\* reflects (the state the run before it left when it saw the same upstream
\* snapshot on the same day) stores no new date, changes no column other than
\* updated_at, and reports new = 0.
C4_Idempotent ==
    [][ \A c \in Ctx :
            (/\ run[c].pc = "load"
             /\ run'[c].pc = "done"
             /\ run'[c].out.status = "success"
             /\ Reflects(table, run[c].records)) =>
                /\ RecordDates(table') = RecordDates(table)
                /\ Values(table') = Values(table)
                /\ run'[c].out.new = 0
      ]_vars

\* the candidate records of a run that saw snapshot s with every provider up
RecordsOf(s, today) ==
    df_final([sugar |-> Snapshots[s].sugar, fx |-> Snapshots[s].fx,
              bdi |-> Snapshots[s].bdi], today)

\* a run over snapshot 1 has returned new = 0 and updated = 2, and the table
\* holds the values of that snapshot
C4_Witness ==
    \E c \in Ctx : /\ run[c].pc = "done"
                   /\ run[c].out.status = "success"
                   /\ run[c].out.new = 0
                   /\ run[c].out.updated = 2
                   /\ Reflects(table, RecordsOf(1, Today))
                   /\ Len(RecordsOf(1, Today)) = 2

\* C5: upsert frame.  One turn of the write loop, seen by the session: a
\* candidate of a stored date overwrites the value columns of exactly that row
\* and leaves every other row as it was; a candidate of a new date adds exactly
\* one row; no stored date is removed, by a turn of the loop or by a commit, and
\* a commit leaves the rows of the dates outside its batch as they were.
C5_UpsertFrame ==
    [][ /\ \A c \in Ctx :
            (run[c].pc = "load" /\ run'[c].pc = "load"
                /\ run'[c].i = run[c].i + 1) =>
                LET row == run[c].records[run[c].i]
                    d   == row.record_date
                    V   == View(c)
                    V2  == View(c)'
                IN  /\ RecordDates(V) \subseteq RecordDates(V2)
                    /\ \A r \in V2 : r.record_date = d => ValuesOf(r) = row
                    /\ \A r \in V : r.record_date # d => r \in V2
                    /\ IF d \in RecordDates(V)
                       THEN Cardinality(V2) = Cardinality(V)
                       ELSE /\ Cardinality(V2) = Cardinality(V) + 1
                            /\ \E r \in V2 : r.record_date = d
        /\ RecordDates(table) \subseteq RecordDates(table')
        /\ \A c \in Ctx :
            (run[c].pc = "load" /\ run'[c].pc = "done") =>
                /\ \A r \in table :
                    r.record_date \notin BatchDates(run[c].records) => r \in table'
                /\ table' # table =>
                    Cardinality(table') = Cardinality(table)
                        + Cardinality(BatchDates(run[c].records) \ RecordDates(table))
      ]_vars

\* no row is stored, or every stored record_date is strictly before today
Stale(T, today) == T = {} \/ \A r \in T : r.record_date < today

\* C6: on start_scheduler a run is triggered at once if and only if the table
\* is empty or its greatest record_date is strictly before today; with a
\* greatest record_date of today or later no run is executed at startup.
C6_Original ==
    [][ (phase = "check" /\ phase' \in {"check_failed", "up_to_date", "catchup"}) =>
            ((phase' = "catchup" /\ run'["main"].pc = "extract")
                <=> Stale(table, Today))
      ]_vars

\* a raw frame holds a date value that is no date
HasUnparseable(raw) ==
    \E f \in {"sugar", "fx", "bdi"} : \E k \in DOMAIN raw[f] : raw[f][k].date = Unparseable

\* C7: when the primary-instrument fetch or the freight-index fetch fails, or
\* the transform stage raises, the run ends with status error and a detail
\* message, the write stage is never entered and the table is left as it was.
\* A fetch that fails is a step that ends the run where the fetch was to
\* return; the transform raises when a frame holds a date that is no date.
C7_AbortsWithoutWrite ==
    [][ \A c \in Ctx :
            (/\ run'[c].pc # "idle"
             /\ \/ /\ run[c].pc \in {"extract", "fetch_bdi"}
                   /\ run'[c].pc = "done"
                \/ /\ run[c].pc = "transform"
                   /\ run'[c].pc # "transform"
                   /\ HasUnparseable(run[c].raw)) =>
                /\ run'[c].pc = "done"
                /\ run'[c].out.kind = "return"
                /\ run'[c].out.status = "error"
                /\ run'[c].out.detail \in
                        IF run[c].pc = "transform" THEN {"conversion to date failed"}
                        ELSE Messages
                /\ run'[c].staged = <<>>
                /\ table' = table
      ]_vars

\* a run whose transform stage raised has ended with status error over a table
\* that holds rows
C7_Witness ==
    \E c \in Ctx : /\ run[c].pc = "done"
                   /\ run[c].out.status = "error"
                   /\ run[c].out.detail = "conversion to date failed"
                   /\ table # {}

\* fx is the constant rate 7.0 once on each of the 60 calendar days ending today
IsConstantSeries(fx, today) ==
    /\ Len(fx) = 60
    /\ {fx[k].date : k \in DOMAIN fx} = (today - 59)..today
    /\ \A k \in DOMAIN fx : fx[k].rate = 7000000

\* C8: when only the exchange-rate fetch fails the run is not aborted: it goes
\* on to the freight-index fetch with the exchange-rate input replaced by the
\* constant rate on each of the 60 calendar days ending today, and the
\* primary-instrument input is left as fetched.
C8_FxFallback ==
    [][ \A c \in Ctx :
            /\ (run[c].pc = "fetch_fx" /\ run'[c].src.fx = "failed") =>
                    run'[c].pc = "fallback"
            /\ (run[c].pc = "fallback" /\ run'[c].pc \notin {"fallback", "idle"}) =>
                    /\ run'[c].pc = "fetch_bdi"
                    /\ run'[c].raw.sugar = run[c].raw.sugar
                    /\ IsConstantSeries(run'[c].raw.fx, Today)
      ]_vars

\* C9: every stage error surfaces as a failed result: a run that has not ended
\* in success has returned a result with status error and a detail message.
C9_ErrorsReturned ==
    \A c \in Ctx :
        (run[c].pc = "done" /\ run[c].out.status # "success") =>
            /\ run[c].out.kind = "return"
            /\ run[c].out.status = "error"

\* C10: the manual trigger reports the outcome of its run: a response that says
\* success belongs to a run that succeeded, with its counts; a failed run is
\* answered with a failure and the detail message.
C10_OutcomeReported ==
    \A t \in Threads :
        response[t].code # 0 =>
            IF response[t].status = "success"
            THEN /\ response[t].result.status = "success"
                 /\ response[t].result.new # Null
                 /\ response[t].result.updated # Null
            ELSE response[t].detail # ""

\* C11: a scheduled run that fails starts no other run and does not stop the
\* scheduler.  When the failed call of the job is over, the job context is idle,
\* the job is still registered and the scheduler still runs; and a run of the
\* job context starts only in a step in which a 02:00 fire time passes.
C11_NoRetryNoStop ==
    [][ /\ (/\ phase = "serving"
            /\ run["job"].pc = "done"
            /\ run["job"].out.status # "success"
            /\ run'["job"] # run["job"]
            /\ phase' # "down") =>
                /\ run'["job"] = IdleRun
                /\ jobs' = jobs
                /\ schedRunning'
                /\ Due("daily_etl")'
        /\ (run["job"].pc # "extract" /\ run'["job"].pc = "extract") =>
                /\ run["job"].pc = "idle"
                /\ Due("daily_etl")
                /\ ~cronPassed /\ cronPassed'
      ]_vars

\* a scheduled run has failed while the scheduler runs, and a later fire time
\* is still to come
C11_Witness ==
    /\ run["job"].pc = "done"
    /\ run["job"].out.status = "error"
    /\ Due("daily_etl")
    /\ now < MaxNow

\* the number of registrations of id among the jobs js
JobCount(js, id) == Cardinality({k \in DOMAIN js : js[k] = id})

\* C12: exactly one job daily_etl is registered after any number of
\* registrations: the scheduler never holds the id twice, holds it once as soon
\* as start_scheduler has registered it, and one more registration in any
\* reachable state leaves it registered once; so a fire time starts at most one
\* run, the one of the job.
C12_OneJob ==
    /\ [](/\ JobCount(jobs, "daily_etl") <= 1
          /\ phase \in {"start", "serving"} => JobCount(jobs, "daily_etl") = 1
          /\ JobCount(AddJobTo(jobs, "daily_etl"), "daily_etl") = 1
          /\ JobCount(AddJobTo(AddJobTo(jobs, "daily_etl"), "daily_etl"), "daily_etl") = 1)
    /\ [][ (~cronPassed /\ cronPassed') =>
                \A c \in Ctx :
                    (run[c].pc # "extract" /\ run'[c].pc = "extract") => c = "job"
         ]_vars

\* start_scheduler has registered the job over a table that holds rows: the
\* process is not in its first life
C12_Witness ==
    /\ phase = "start"
    /\ jobs = << "daily_etl" >>
    /\ table # {}
    /\ now = MaxNow

\* C13: at process start the catch-up check and the run it triggers are over
\* before the job is registered and the scheduler is started: while the check
\* or the catch-up run is in progress no job is registered, the scheduler does
\* not run and no other context runs the pipeline; whenever a fire can occur
\* the catch-up run is over.
C13_CatchUpFirst ==
    /\ phase \in {"check", "catchup"} =>
            /\ jobs = <<>>
            /\ ~schedRunning
            /\ \A c \in Ctx \ {"main"} : run[c].pc = "idle"
    /\ run["main"].pc # "idle" => phase = "catchup"
    /\ Due("daily_etl") => (phase = "serving" /\ run["main"].pc = "idle")

\* the catch-up run is in its write stage and the 02:00 of the day is over
C13_Witness ==
    /\ phase = "catchup"
    /\ run["main"].pc = "load"
    /\ cronPassed
    /\ now = MaxNow

\* the orchestrator state of a calling context
Status(r) ==
    IF r.pc = "idle" THEN "idle"
    ELSE IF r.pc \in {"extract", "fetch_fx", "fallback", "fetch_bdi", "transform", "load"}
         THEN "running"
    ELSE IF r.out.status = "success" THEN "completed"
    ELSE "failed"

\* C14: every triggered run terminates and follows the state machine.  A
\* context changes state only from idle to running, from running to completed
\* (by the commit of the write stage) or to failed, and from completed or failed
\* to idle, or to idle when the process ends; and a context that is not idle
\* becomes idle again, where a trigger starts a new run.
C14_StateMachine ==
    /\ [][ \A c \in Ctx :
            LET a == Status(run[c])
                b == Status(run'[c])
            IN  a # b =>
                  \/ a = "idle" /\ b = "running"
                  \/ a = "running" /\ b = "completed" /\ run[c].pc = "load"
                        /\ run[c].i > Len(run[c].records)
                  \/ a = "running" /\ b = "failed"
                  \/ a \in {"completed", "failed"} /\ b = "idle"
                  \/ b = "idle" /\ phase' = "down"
         ]_vars
    /\ \A c \in Ctx : (Status(run[c]) # "idle") ~> (Status(run[c]) = "idle")

\* a run has completed and its context is idle again, and a trigger has
\* started a new run
C14_Witness ==
    \E t \in Threads : /\ run[t].pc = "extract"
                       /\ table # {}
                       /\ \A c \in Ctx \ {t} : Status(run[c]) = "idle"

\* ---- the merge, read off the provider frames
\* context c ends its transform stage with a frame of candidate records
TransformStep(c) == run[c].pc = "transform" /\ run'[c].pc = "load"

SugarDates(raw) == {raw.sugar[k].date : k \in DOMAIN raw.sugar}
FxDates(raw) == {raw.fx[k].date : k \in DOMAIN raw.fx}
BdiDates(raw) == {raw.bdi[k].date : k \in DOMAIN raw.bdi}

\* the rows of the exchange-rate frame and of the freight frame that the joins
\* attach to date d, in the order of the frame (a null date is no date: the
\* joins attach nothing to a null key)
FxRowsOn(raw, d) == SelectSeq(raw.fx, LAMBDA r : d # Null /\ r.date = d)
BdiRowsOn(raw, d) == SelectSeq(raw.bdi, LAMBDA r : d # Null /\ r.date = d)

\* the exchange rates, per unit, and the freight values observed on date d
FxOn(raw, d) ==
    {NormRate(FxRowsOn(raw, d)[k].rate) : k \in DOMAIN FxRowsOn(raw, d)} \ {Null}
BdiOn(raw, d) ==
    {BdiRowsOn(raw, d)[k].index : k \in DOMAIN BdiRowsOn(raw, d)} \ {Null}

\* the value the fill carries into date d: the last observation of the latest
\* earlier trading date that has any
FxCarried(raw, d) ==
    LET prev == {e \in SugarDates(raw) : e # Null /\ e < d /\ FxOn(raw, e) # {}}
    IN  IF prev = {} THEN {}
        ELSE LET rows == FxRowsOn(raw, Max(prev))
                 last == Max({k \in DOMAIN rows : rows[k].rate # Null})
             IN  {NormRate(rows[last].rate)}
BdiCarried(raw, d) ==
    LET prev == {e \in SugarDates(raw) : e # Null /\ e < d /\ BdiOn(raw, e) # {}}
    IN  IF prev = {} THEN {}
        ELSE LET rows == BdiRowsOn(raw, Max(prev))
                 last == Max({k \in DOMAIN rows : rows[k].index # Null})
             IN  {rows[last].index}

\* the values the rows of trading date d carry after the fill: the observations
\* of d itself, and, when the date has no row in the frame or its first row
\* has no value, the value carried into it
FxFilled(raw, d) ==
    LET rows == FxRowsOn(raw, d) IN
    FxOn(raw, d) \cup
        (IF rows = <<>> \/ rows[1].rate = Null THEN FxCarried(raw, d) ELSE {})
BdiFilled(raw, d) ==
    LET rows == BdiRowsOn(raw, d) IN
    BdiOn(raw, d) \cup
        (IF rows = <<>> \/ rows[1].index = Null THEN BdiCarried(raw, d) ELSE {})

\* C15: forward-fill.  In the merged table in ascending date order, a row
\* without an exchange-rate (freight-index) value of its own carries the value
\* of the most recent earlier row that has one, and a row with a value keeps it:
\* every candidate record of a trading date whose rows all have an observation
\* holds an observation of that date, every candidate record of a date without
\* one holds the last observation of the latest earlier trading date that has
\* any, and where a date has rows with and without a value its records hold
\* one or the other.
C15_ForwardFill ==
    [][ \A c \in Ctx : TransformStep(c) =>
            \A k \in DOMAIN run'[c].records :
                LET rec == run'[c].records[k] IN
                /\ rec.usd_cny_rate \in FxFilled(run[c].raw, rec.record_date)
                /\ rec.bdi_index \in BdiFilled(run[c].raw, rec.record_date)
      ]_vars

\* rates on the first and the fifth of five trading days: the records of days
\* 1 to 4 hold 7.0 and the record of day 5 holds 7.2
C15_Witness ==
    \E c \in Ctx :
        /\ run[c].pc = "load"
        /\ run[c].raw = GapFrames
        /\ [k \in DOMAIN run[c].records |-> run[c].records[k].record_date]
                = [k \in 1..5 |-> Day0 - 5 + k]
        /\ [k \in DOMAIN run[c].records |-> run[c].records[k].usd_cny_rate]
                = << 7000000, 7000000, 7000000, 7000000, 7200000 >>

\* C16: every trading date of the window whose exchange rate and freight index
\* are both non-null after the fill yields a candidate record, whatever its
\* optional fields hold.
C16_RecordPerResolvedDate ==
    [][ \A c \in Ctx : TransformStep(c) =>
            \A d \in SugarDates(run[c].raw) :
                (/\ d >= Today - KeepDays
                 /\ FxFilled(run[c].raw, d) # {}
                 /\ BdiFilled(run[c].raw, d) # {}) =>
                    d \in BatchDates(run'[c].records)
      ]_vars

\* C17: the merge output holds at most one candidate record per date and is in
\* strictly ascending date order.
C17_StrictlyAscending ==
    \A c \in Ctx :
        \A j \in DOMAIN run[c].records, k \in DOMAIN run[c].records :
            j < k => run[c].records[j].record_date < run[c].records[k].record_date

\* C18: every record a run writes has a non-null exchange rate, freight index
\* and cost estimate, the estimate being the one of its two inputs; nothing is
\* filled backward: a trading date that precedes the first observation of
\* either column yields no record.
C18_NoNullsNoBackfill ==
    /\ [](\A c \in Ctx : \A k \in DOMAIN run[c].records :
            /\ run[c].records[k].usd_cny_rate # Null
            /\ run[c].records[k].bdi_index # Null
            /\ run[c].records[k].import_cost_estimate # Null
            /\ run[c].records[k].import_cost_estimate
                    = Cost(run[c].records[k].usd_cny_rate, run[c].records[k].bdi_index))
    /\ [](\A r \in table : /\ r.usd_cny_rate # Null
                          /\ r.bdi_index # Null
                          /\ r.import_cost_estimate # Null)
    /\ [][ \A c \in Ctx : TransformStep(c) =>
            \A d \in SugarDates(run[c].raw) :
                (FxFilled(run[c].raw, d) = {} \/ BdiFilled(run[c].raw, d) = {}) =>
                    d \notin BatchDates(run'[c].records)
         ]_vars

\* a trading date with both prices precedes the first rate and has no record,
\* while later dates have theirs
C18_Witness ==
    \E c \in Ctx :
        /\ run[c].pc = "load"
        /\ run[c].records # <<>>
        /\ \E k \in DOMAIN run[c].raw.sugar :
            /\ run[c].raw.sugar[k].open # Null
            /\ FxFilled(run[c].raw, run[c].raw.sugar[k].date) = {}
            /\ BdiFilled(run[c].raw, run[c].raw.sugar[k].date) # {}
            /\ run[c].raw.sugar[k].date \notin BatchDates(run[c].records)
            /\ run[c].raw.sugar[k].date < run[c].records[1].record_date

\* C19: when neither the exchange-rate series nor the freight-index series has
\* a date in common with the non-empty primary-instrument series, the merge
\* output is empty, and a run with an empty merge output writes no record.
C19_NoOverlapNoRecord ==
    [][ \A c \in Ctx :
            /\ (/\ TransformStep(c)
                /\ run[c].raw.sugar # <<>>
                /\ FxDates(run[c].raw) \cap SugarDates(run[c].raw) = {}
                /\ BdiDates(run[c].raw) \cap SugarDates(run[c].raw) = {}) =>
                    run'[c].records = <<>>
            /\ (/\ run[c].pc = "load"
                /\ run[c].records = <<>>
                /\ run'[c].pc = "done") =>
                    /\ table' = table
                    /\ run'[c].out.status = "success" =>
                        (run'[c].out.new = 0 /\ run'[c].out.updated = 0)
      ]_vars

\* the three series are non-empty, no rate and no freight value is dated on a
\* trading date, and the transform has left no candidate record
C19_Witness ==
    \E c \in Ctx :
        /\ run[c].pc = "load"
        /\ run[c].records = <<>>
        /\ run[c].raw.sugar # <<>>
        /\ run[c].raw.fx # <<>>
        /\ run[c].raw.bdi # <<>>
        /\ FxDates(run[c].raw) \cap SugarDates(run[c].raw) = {}
        /\ BdiDates(run[c].raw) \cap SugarDates(run[c].raw) = {}

\* the unit correction as specified: above 50 the value is divided by 100 and
\* rounded to four decimals, up to 50 it is kept
RoundedPerUnit(v) ==
    IF v > 50 * RateUnit THEN ((v + 5000) \div 10000) * 100 ELSE v

\* C20: exchange-rate unit correction: the rate of every candidate record is
\* the specified correction of a raw exchange-rate value of the run.
C20_UnitCorrection ==
    [][ \A c \in Ctx : TransformStep(c) =>
            \A k \in DOMAIN run'[c].records :
                run'[c].records[k].usd_cny_rate \in
                    {RoundedPerUnit(run[c].raw.fx[j].rate) : j \in DOMAIN run[c].raw.fx}
      ]_vars

\* ---- the derived field
\* est, in hundredths, is a nearest two-decimal value of
\* 22 * rate * 22.0462 * 1.5 + (bdi / 10 + 200), rate in millionths.  The exact
\* value in hundredths is 7275246 * rate / 10^8 + 10 * bdi + 20000; with
\* rate = 10^4 * hi + lo and 7275246 = 10^4 * 727 + 5246 the product is
\* 10^8 * 727 * hi + 10^4 * (727 * lo + 5246 * hi) + 5246 * lo.
IsEstimateOf(est, rate, bdi) ==
    LET hi == rate \div 10000
        lo == rate % 10000
        mid == 727 * lo + 5246 * hi
        whole == 727 * hi + (mid \div 10000) + 10 * bdi + 20000
        rest == (mid % 10000) * 10000 + 5246 * lo
        over == est - whole
    IN  /\ over \in 0..2
        /\ 2 * (over * 100000000 - rest) <= 100000000
        /\ 2 * (rest - over * 100000000) <= 100000000

\* C21: for every merged row whose exchange rate and freight index are both
\* non-null after the fill, the cost estimate is
\* 22 * rate * 22.0462 * 1.5 + (freight / 10 + 200) rounded to two decimals,
\* computed from the filled values of that same row.
C21_CostFormula ==
    [][ \A c \in Ctx : TransformStep(c) =>
            \A k \in DOMAIN run'[c].records :
                LET rec == run'[c].records[k] IN
                /\ rec.usd_cny_rate \in FxFilled(run[c].raw, rec.record_date)
                /\ rec.bdi_index \in BdiFilled(run[c].raw, rec.record_date)
                /\ IsEstimateOf(rec.import_cost_estimate, rec.usd_cny_rate,
                                rec.bdi_index)
      ]_vars

\* the record of the fifth day holds the rate 7.2 observed that day and the
\* freight index 1000 filled from the first day, and the estimate 5538.18
C21_Witness ==
    \E c \in Ctx :
        /\ run[c].pc = "load"
        /\ run[c].raw = GapFrames
        /\ \E k \in DOMAIN run[c].records :
            /\ run[c].records[k].record_date = Day0
            /\ run[c].records[k].usd_cny_rate = 7200000
            /\ run[c].records[k].bdi_index = 1000
            /\ run[c].records[k].import_cost_estimate = 553818

\* C22: a record with the exchange rate 7.0 and the freight index 1000 has the
\* cost estimate 5392.67.
C22_WorkedExample ==
    \A c \in Ctx : \A k \in DOMAIN run[c].records :
        (run[c].records[k].usd_cny_rate = 7 * RateUnit
            /\ run[c].records[k].bdi_index = 1000) =>
                run[c].records[k].import_cost_estimate = 539267

\* the estimate as the specification works it out: 5389.67
C22_Original ==
    \A c \in Ctx : \A k \in DOMAIN run[c].records :
        (run[c].records[k].usd_cny_rate = 7 * RateUnit
            /\ run[c].records[k].bdi_index = 1000) =>
                run[c].records[k].import_cost_estimate = 538967

\* a candidate record holds the rate 7.0 and the freight index 1000
C22_Witness ==
    \E c \in Ctx : \E k \in DOMAIN run[c].records :
        /\ run[c].records[k].usd_cny_rate = 7 * RateUnit
        /\ run[c].records[k].bdi_index = 1000
        /\ run[c].records[k].import_cost_estimate = 539267

\* C23: for every record_date, updated_at never decreases across the sequence
\* of writes to that date: the stored timestamp of a date is never replaced by
\* an earlier one.
C23_UpdatedAtMonotone ==
    [][ \A r \in table : \A q \in table' :
            q.record_date = r.record_date => q.updated_at >= r.updated_at
      ]_vars

\* C24: a row of a raw series whose date cannot be parsed is dropped silently:
\* the transform stage of a run that holds such a row ends with the candidate
\* records of the remaining rows and the run goes on to its write stage.
C24_UnparseableDropped ==
    [][ \A c \in Ctx :
            (/\ run[c].pc = "transform"
             /\ HasUnparseable(run[c].raw)
             /\ run'[c].pc \notin {"transform", "idle"}) =>
                /\ run'[c].pc = "load"
                /\ run'[c].out.status # "error"
      ]_vars

\* C25: a run whose transform stage leaves no candidate record ends as failed
\* and not with status success.
C25_EmptyOutputFails ==
    [][ \A c \in Ctx :
            (run[c].pc = "load" /\ run[c].records = <<>> /\ run'[c].pc = "done") =>
                run'[c].out.status # "success"
      ]_vars

\* C26: the existence check and the write of a date act as one conditional
\* write: no run ends with the integrity error of a date that another run
\* inserted between its check and its insert.
C26_ConditionalWrite ==
    \A c \in Ctx :
        run[c].pc = "done" =>
            ~(run[c].out.kind = "raise" /\ run[c].out.detail = "IntegrityError")

\* context c commits its unit of work and returns success
CommitStep(c) ==
    /\ run[c].pc = "load"
    /\ run'[c].pc = "done"
    /\ run'[c].out.status = "success"

\* C27: in a run that used the synthetic exchange-rate fallback, every
\* candidate record holds the rate 7.0 and the estimate computed from it, and
\* is dated within the 60 days that end on the day of the fallback, which is
\* the current day or an earlier day of the run; when the run commits, every
\* stored row of a date of the batch holds the rate 7.0 and the estimate computed
\* from 7.0, whatever it held before.
C27_FallbackOverwrites ==
    [][ \A c \in Ctx :
            /\ (TransformStep(c) /\ run[c].src.fx = "failed") =>
                    LET fallbackDay == Max(FxDates(run[c].raw)) IN
                    /\ fallbackDay \in Day0..Today
                    /\ \A k \in DOMAIN run'[c].records :
                        LET rec == run'[c].records[k] IN
                        /\ rec.usd_cny_rate = 7 * RateUnit
                        /\ rec.record_date \in
                                (fallbackDay - FxWindowDays + 1)..fallbackDay
                        /\ IsEstimateOf(rec.import_cost_estimate, 7 * RateUnit,
                                        rec.bdi_index)
            /\ (CommitStep(c) /\ run[c].src.fx = "failed") =>
                    /\ BatchDates(run[c].records) \subseteq RecordDates(table')
                    /\ \A q \in table' :
                        q.record_date \in BatchDates(run[c].records) =>
                            /\ q.usd_cny_rate = 7 * RateUnit
                            /\ IsEstimateOf(q.import_cost_estimate, 7 * RateUnit,
                                            q.bdi_index)
      ]_vars

\* C28: no candidate record is dated earlier than the current date minus 365
\* days; the window is applied after the fill, so the record of a trading date
\* inside the window holds the values filled from a trading date outside it;
\* and no step of a run changes a stored row dated before the window.
C28_WindowAfterFill ==
    [][ \A c \in Ctx :
            /\ TransformStep(c) =>
                    \A k \in DOMAIN run'[c].records :
                        LET rec == run'[c].records[k]
                            d == rec.record_date
                            before == {e \in SugarDates(run[c].raw) : e < d}
                        IN  /\ d >= Today - KeepDays
                            /\ (/\ before # {}
                                /\ Max(before) < Today - KeepDays
                                /\ FxOn(run[c].raw, d) = {}
                                /\ BdiOn(run[c].raw, d) = {}) =>
                                    /\ rec.usd_cny_rate \in FxOn(run[c].raw, Max(before))
                                    /\ rec.bdi_index \in BdiOn(run[c].raw, Max(before))
            /\ run[c].pc = "load" =>
                    \A r \in table : r.record_date < Today - KeepDays => r \in table'
      ]_vars

\* the run over the data that reaches back past the window has committed: the
\* record of today holds the rate and the freight value of 366 days ago, and
\* the stored row of that day is as it was
C28_Witness ==
    \E c \in Ctx :
        /\ run[c].pc = "done"
        /\ run[c].out.status = "success"
        /\ run[c].out.new = 1
        /\ run[c].out.updated = 0
        /\ StoredOld \subseteq table
        /\ \E r \in table : /\ r.record_date = Day0
                             /\ r.usd_cny_rate = 7100000
                             /\ r.bdi_index = 990

\* C29: a failure of the startup catch-up never prevents scheduling.  Whatever
\* the catch-up did (the latest-date query failed, the run returned an error or
\* raised), check_and_run_etl can come back, the registration can follow and
\* the scheduler can start; a process that goes on does so by these steps only;
\* and once start_scheduler has returned the job daily_etl is registered once
\* and the scheduler runs.
C29_CatchUpNeverBlocks ==
    /\ [](/\ phase = "check" => ENABLED (CheckFails \/ CheckAndRun)
          /\ (phase = "catchup" /\ run["main"].pc = "done") => ENABLED CatchUpReturn
          /\ phase \in {"check_failed", "up_to_date", "caught_up"} => ENABLED AddJob
          /\ phase = "start" => ENABLED StartScheduler
          /\ phase = "serving" =>
                (Due("daily_etl") /\ JobCount(jobs, "daily_etl") = 1))
    /\ [][ /\ (phase = "catchup" /\ phase' \notin {"catchup", "down"}) =>
                    phase' = "caught_up"
           /\ (phase \in {"check_failed", "caught_up"}
                    /\ phase' \notin {phase, "down"}) =>
                        (phase' = "start" /\ JobCount(jobs', "daily_etl") = 1)
           /\ (phase = "start" /\ phase' \notin {"start", "down"}) =>
                    (phase' = "serving" /\ Due("daily_etl")')
         ]_vars

\* the catch-up run has raised at its write stage and check_and_run_etl is about
\* to come back
C29_Witness ==
    /\ phase = "catchup"
    /\ run["main"].pc = "done"
    /\ run["main"].out.kind = "raise"
    /\ jobs = <<>>
    /\ ~schedRunning

\* the provider frames without the exchange-rate and freight-index rows that
\* are dated on a day the primary instrument does not list
OnTradingDates(raw) ==
    [sugar |-> raw.sugar,
     fx    |-> SelectSeq(raw.fx, LAMBDA r : r.date \in SugarDates(raw)),
     bdi   |-> SelectSeq(raw.bdi, LAMBDA r : r.date \in SugarDates(raw))]

\* C30: an exchange-rate or freight-index observation dated on a day that is
\* not a primary-instrument trading date never contributes to an output row:
\* the candidate records are those of the same frames without these
\* observations, and every rate and freight value they hold was observed on a
\* trading date that is not after the record's.
C30_NonTradingIgnored ==
    [][ \A c \in Ctx : TransformStep(c) =>
            /\ run'[c].records = df_final(OnTradingDates(run[c].raw), Today)
            /\ \A k \in DOMAIN run'[c].records :
                LET rec == run'[c].records[k]
                    upTo == {e \in SugarDates(run[c].raw) : e <= rec.record_date}
                IN  /\ rec.usd_cny_rate \in UNION {FxOn(run[c].raw, e) : e \in upTo}
                    /\ rec.bdi_index \in UNION {BdiOn(run[c].raw, e) : e \in upTo}
      ]_vars

\* a trading date without a rate of its own follows a day that is no trading
\* date and has a rate; its record holds the rate of the trading date before
\* that day, which is another value
C30_Witness ==
    \E c \in Ctx :
        /\ run[c].pc = "load"
        /\ \E k \in DOMAIN run[c].records :
            LET rec == run[c].records[k]
                d == rec.record_date
            IN  /\ FxOn(run[c].raw, d) = {}
                /\ \E e \in FxDates(run[c].raw) \ SugarDates(run[c].raw) :
                    \E p \in SugarDates(run[c].raw) :
                        /\ p < e
                        /\ e < d
                        /\ rec.usd_cny_rate \in FxOn(run[c].raw, p)
                        /\ rec.usd_cny_rate \notin FxOn(run[c].raw, e)

====
